---- MODULE Spec2Model ----
(***************************************************************************)
(* Model of the voice controller of warp_voice.py (class WarpVoiceFix):     *)
(* the policy loop run(), its nested confirmation loop                      *)
(* handle_confirmation(), the actuation routine click_button() with the     *)
(* window focus it needs, and the key-listener thread on_key_press().       *)
(*                                                                          *)
(* Time is counted in whole seconds, levels in thousandths of full scale.   *)
(* The policy thread is cut where the key-listener thread can observe or    *)
(* disturb it: the loop tests of self.running, the frame read, and each     *)
(* assignment of click_button.                                              *)
(***************************************************************************)
EXTENDS Integers, Naturals, FiniteSets, Sequences, TLC

\* ---------------------------------------------------------------- bounds
MaxTime == 16   \* the clock stops being advanced here
MaxDt == 2      \* longest time between two readings of the clock
MaxLevel == 13  \* the loudest level sampled

\* ------------------------------------------------------- program constants
silence_threshold == 12     \* 0.012, in thousandths
silence_duration == 3       \* 3.0 s
confirmation_silence == 10  \* 10.0 s
required_samples == 2       \* samples_above_threshold >= 2

Levels == {0, silence_threshold, MaxLevel}

START == "START RECORDING"
STOP == "STOP RECORDING"
SEND == "SEND INPUT"
NONE == "NONE"

\* value of exit_status while the process has not ended
NoExit == -1

VARIABLES
  \* fields of WarpVoiceFix
  is_recording, is_confirming, manual_confirm, cycle_count, last_sound_time,
  running, stream,
  \* locals of run() and handle_confirmation()
  voice_active, audio_level, samples_above_threshold, confirmation_start,
  accepted,
  \* control: position of the policy thread, argument and focus result of the
  \* click_button call in progress, position of the key-listener thread
  pc, action, focus_ok, kpc, listening,
  \* environment: the clock, and what the automation layer was asked to do
  now, clicks, presses,
  \* observation of the tick in progress: phase and cycle_count when its
  \* frame was read and the loop that read it; whether any level above the
  \* threshold was ever sampled; Submitted events since Confirming was last
  \* entered
  phase0, cycle0, tick, heard, submitted,
  \* the process and its surroundings: calls of stream.close(), status
  \* snapshots sent, exit status of the process, how the start-up went,
  \* whether an exception is on its way out of run(); and the time of the
  \* latest sample above the threshold, whichever loop read it
  releases, published, exit_status, startup, raised, last_loud

vars == << is_recording, is_confirming, manual_confirm, cycle_count,
           last_sound_time, running, stream, voice_active, audio_level,
           samples_above_threshold, confirmation_start, accepted, pc,
           action, focus_ok, kpc, listening, now, clicks, presses, phase0,
           cycle0, tick, heard, submitted, releases, published,
           exit_status, startup, raised, last_loud >>

selfVars == << is_recording, is_confirming, manual_confirm, cycle_count >>
listenerVars == << kpc, listening >>
confVars == << samples_above_threshold, confirmation_start, accepted >>
portVars == << clicks, presses >>
tickVars == << phase0, cycle0, tick >>
sysVars == << releases, published, exit_status, startup, raised >>

\* The phase the two flags encode; click_button passes through both flags
\* set ("Both") between two of its assignments.
Phase ==
  IF is_recording /\ is_confirming THEN "Both"
  ELSE IF is_confirming THEN "Confirming"
  ELSE IF is_recording THEN "Recording"
  ELSE "Waiting"

\* ------------------------------------------------------------ conditions
\* the comparison made inclusive: a level equal to the threshold counts as voice
LoudOrEqual(level) == level >= silence_threshold

\* level > self.silence_threshold
Loud(level) == level > silence_threshold

\* the comparison made strict: a silence of silence_duration exactly is too short
SilenceElapsedStrict(t, last) == t - last > silence_duration

\* silence_time >= self.silence_duration
SilenceElapsed(t, last) == t - last >= silence_duration

\* one sample above the threshold is taken for sustained voice
VoiceSustainedOnce(n) == n >= 1

\* samples_above_threshold >= 2
VoiceSustained(n) == n >= required_samples

\* the comparison made strict: the timeout fires one tick late
TimedOutStrict(e) == e > confirmation_silence

\* elapsed >= self.confirmation_silence
TimedOut(e) == e >= confirmation_silence

\* not self.is_recording and not self.is_confirming
Idle == ~is_recording /\ ~is_confirming

\* the edge test on voice_active left out: every tick above the threshold
\* in Waiting calls click_button(START)
StartDueEveryTick == Idle

\* run(), above the threshold: the rising edge of voice_active while no
\* recording and no confirmation is under way calls click_button(START)
StartDue == ~voice_active /\ Idle

\* the test of is_recording left out
StopDueAnyPhase(t) == SilenceElapsed(t, last_sound_time)

\* run(), at or below the threshold: a recording whose silence has lasted
\* silence_duration at time t calls click_button(STOP)
StopDue(t) == is_recording /\ SilenceElapsed(t, last_sound_time)

\* self.manual_confirm never looked at: only the timeout submits
OutcomeNoManual(level, n, m, e) ==
  IF Loud(level) /\ VoiceSustained(n) THEN "resume"
  ELSE IF TimedOut(e) THEN "auto"
  ELSE NONE

\* self.manual_confirm looked at before the voice
OutcomeManualFirst(level, n, m, e) ==
  IF m THEN "manual"
  ELSE IF Loud(level) /\ VoiceSustained(n) THEN "resume"
  ELSE IF TimedOut(e) THEN "auto"
  ELSE NONE

\* handle_confirmation, one pass: with n the count of consecutive samples
\* above the threshold including this one, m the value of self.manual_confirm
\* and e the elapsed time. "resume" is the `return False` after
\* click_button(START), "manual" and "auto" are the two `return True`.
Outcome(level, n, m, e) ==
  IF Loud(level) /\ VoiceSustained(n) THEN "resume"
  ELSE IF m THEN "manual"
  ELSE IF TimedOut(e) THEN "auto"
  ELSE NONE

\* ------------------------------------------------------------------ Init
Init ==
  /\ is_recording = FALSE
  /\ is_confirming = FALSE
  /\ manual_confirm = FALSE
  /\ cycle_count = 0
  /\ last_sound_time = 0
  /\ running = TRUE
  /\ stream = "none"
  /\ voice_active = FALSE
  /\ audio_level = 0
  /\ samples_above_threshold = 0
  /\ confirmation_start = 0
  /\ accepted = NONE
  /\ pc = "init"
  /\ action = NONE
  /\ focus_ok = FALSE
  /\ kpc = "idle"
  /\ listening = FALSE
  /\ now = 0
  /\ clicks = 0
  /\ presses = 0
  /\ phase0 = "Waiting"
  /\ cycle0 = 0
  /\ tick = NONE
  /\ heard = FALSE
  /\ submitted = 0
  /\ releases = 0
  /\ published = 0
  /\ exit_status = NoExit
  /\ startup = "pending"
  /\ raised = FALSE
  /\ last_loud = 0

\* ------------------------------------------------- key-listener thread
\* on_key_press, SPACE: the test `key == space and self.is_confirming`
KeySpaceTest ==
  /\ listening /\ kpc = "idle"
  /\ kpc' = IF is_confirming THEN "confirm" ELSE "idle"
  /\ UNCHANGED << selfVars, last_sound_time, running, stream, voice_active,
                  audio_level, confVars, pc, action, focus_ok, listening,
                  now, portVars, tickVars, heard, submitted,
                  sysVars, last_loud >>

\* on_key_press, SPACE: self.manual_confirm = True
KeySpaceSet ==
  /\ listening /\ kpc = "confirm"
  /\ manual_confirm' = TRUE
  /\ kpc' = "idle"
  /\ UNCHANGED << is_recording, is_confirming, cycle_count, last_sound_time,
                  running, stream, voice_active, audio_level, confVars, pc,
                  action, focus_ok, listening, now, portVars, tickVars,
                  heard, submitted,
                  sysVars, last_loud >>

\* on_key_press, ESC: self.running = False; return False stops the listener
KeyEsc ==
  /\ listening /\ kpc = "idle"
  /\ running' = FALSE
  /\ listening' = FALSE
  /\ UNCHANGED << selfVars, last_sound_time, stream, voice_active,
                  audio_level, confVars, pc, action, focus_ok, kpc, now,
                  portVars, tickVars, heard, submitted,
                  sysVars, last_loud >>

on_key_press == KeySpaceTest \/ KeySpaceSet \/ KeyEsc

\* ------------------------------------------------------- policy thread
\* __init__: load_button_position() leaves the process with exit(1) when the
\* configuration cannot be read or lacks a field; otherwise the key listener
\* is started and the object is constructed
load_button_position ==
  /\ pc = "init"
  /\ \E loaded \in BOOLEAN :
       IF loaded
         THEN /\ pc' = "start" /\ listening' = TRUE
              /\ UNCHANGED << startup, exit_status >>
         ELSE /\ pc' = "failed" /\ listening' = FALSE
              /\ startup' = "no_config" /\ exit_status' = 1
  /\ UNCHANGED << selfVars, last_sound_time, running, stream, voice_active,
                  audio_level, confVars, action, focus_ok, kpc, now,
                  portVars, tickVars, heard, submitted, releases, published,
                  raised, last_loud >>

\* __main__: controller.run() has returned or raised; the process ends with
\* status 0 after a return and 1 after an exception nobody caught
ProcessExit ==
  /\ pc \in {"returned", "done"}
  /\ exit_status = NoExit
  /\ exit_status' = IF raised THEN 1 ELSE 0
  /\ listening' = FALSE
  /\ UNCHANGED << selfVars, last_sound_time, running, stream, voice_active,
                  audio_level, confVars, pc, action, focus_ok, kpc, now,
                  portVars, tickVars, heard, submitted, releases, published,
                  startup, raised, last_loud >>

\* run(): the focus of the window and the opening of the audio stream
RunStart ==
  /\ pc = "start"
  /\ \E focused \in BOOLEAN, opened \in BOOLEAN :
       /\ focus_ok' = focused
       /\ IF ~focused THEN pc' = "returned" /\ stream' = stream
          ELSE IF ~opened THEN pc' = "returned" /\ stream' = stream
          ELSE pc' = "loop" /\ stream' = "open"
       /\ startup' = IF ~focused THEN "no_focus"
                     ELSE IF ~opened THEN "no_audio" ELSE "ok"
  /\ UNCHANGED << selfVars, last_sound_time, running, voice_active,
                  audio_level, confVars, action, listenerVars, now,
                  portVars, tickVars, heard, submitted,
                  releases, published, exit_status, raised, last_loud >>

\* run(): `while self.running:`
RunLoop ==
  /\ pc = "loop"
  /\ pc' = IF running THEN "read" ELSE "finally"
  /\ UNCHANGED << selfVars, last_sound_time, running, stream, voice_active,
                  audio_level, confVars, action, focus_ok, listenerVars,
                  now, portVars, tickVars, heard, submitted,
                  sysVars, last_loud >>

\* a call of click_button(a): the request is made, focus_warp comes next
Request(a) ==
  /\ action' = a
  /\ pc' = "focus"

\* the tick ends without a request
NoRequest(next) ==
  /\ action' = NONE
  /\ pc' = next

\* run(): one pass of the loop body, from the frame read to the decision
RunTick ==
  /\ pc = "read"
  /\ \E dt \in 1..MaxDt, level \in Levels :
       /\ now + dt <= MaxTime
       /\ now' = now + dt
       /\ audio_level' = level
       /\ heard' = (heard \/ level > silence_threshold)
       /\ last_loud' = IF level > silence_threshold THEN now' ELSE last_loud
       /\ IF Loud(level)
            THEN /\ last_sound_time' = now'
                 /\ voice_active' = TRUE
                 /\ IF StartDue THEN Request(START) ELSE NoRequest("loop")
            ELSE /\ voice_active' = FALSE
                 /\ last_sound_time' = last_sound_time
                 /\ IF StopDue(now') THEN Request(STOP) ELSE NoRequest("loop")
  /\ phase0' = Phase
  /\ cycle0' = cycle_count
  /\ tick' = "run"
  /\ UNCHANGED << selfVars, running, stream, confVars, focus_ok,
                  listenerVars, clicks, presses, submitted,
                  sysVars >>

\* stream.read raises: nothing in run() or handle_confirmation() catches it,
\* the finally clause of run() is next
ReadError ==
  /\ pc \in {"read", "conf_read"}
  /\ pc' = "finally"
  /\ raised' = TRUE
  /\ UNCHANGED << selfVars, last_sound_time, running, stream, voice_active,
                  audio_level, confVars, action, focus_ok, listenerVars,
                  now, portVars, tickVars, heard, submitted,
                  releases, published, exit_status, startup, last_loud >>

\* where click_button's caller goes on: a successful STOP RECORDING enters
\* handle_confirmation, everything else falls through to the loop test of run()
After(a, ok) == IF a = STOP /\ ok THEN "conf_enter" ELSE "loop"

\* the result of focus_warp() not looked at: the click is made and the
\* assignments follow whether or not the window could be focused
focus_warp_ignored ==
  /\ pc = "focus"
  /\ \E focused \in BOOLEAN : focus_ok' = focused
  /\ clicks' = clicks + 1
  /\ pc' = "set_recording"
  /\ UNCHANGED << selfVars, last_sound_time, running, stream, voice_active,
                  audio_level, confVars, action, listenerVars, now,
                  presses, tickVars, heard, submitted,
                  sysVars, last_loud >>

\* click_button: focus_warp() and, when it succeeds, pyautogui.click
focus_warp ==
  /\ pc = "focus"
  /\ \E focused \in BOOLEAN :
       /\ focus_ok' = focused
       /\ IF focused
            THEN clicks' = clicks + 1 /\ pc' = "set_recording"
            ELSE clicks' = clicks /\ pc' = After(action, FALSE)
  /\ UNCHANGED << selfVars, last_sound_time, running, stream, voice_active,
                  audio_level, confVars, action, listenerVars, now,
                  presses, tickVars, heard, submitted,
                  sysVars, last_loud >>

\* click_button: self.is_recording = ...
SetRecording ==
  /\ pc = "set_recording"
  /\ is_recording' = (action = START)
  /\ pc' = "set_confirming"
  /\ UNCHANGED << is_confirming, manual_confirm, cycle_count,
                  last_sound_time, running, stream, voice_active,
                  audio_level, confVars, action, focus_ok, listenerVars,
                  now, portVars, tickVars, heard, submitted,
                  sysVars, last_loud >>

\* the start-capture branch without its assignment to is_confirming: the
\* flag is written by the stop and the submit branches only
SetConfirmingNotOnStart ==
  /\ pc = "set_confirming"
  /\ is_confirming' = IF action = START THEN is_confirming
                      ELSE (action = STOP)
  /\ submitted' = IF action = STOP THEN 0 ELSE submitted
  /\ pc' = "set_manual"
  /\ UNCHANGED << is_recording, manual_confirm, cycle_count,
                  last_sound_time, running, stream, voice_active,
                  audio_level, confVars, action, focus_ok, listenerVars,
                  now, portVars, tickVars, heard,
                  sysVars, last_loud >>

\* click_button: self.is_confirming = ...
SetConfirming ==
  /\ pc = "set_confirming"
  /\ is_confirming' = (action = STOP)
  /\ submitted' = IF action = STOP THEN 0 ELSE submitted
  /\ pc' = "set_manual"
  /\ UNCHANGED << is_recording, manual_confirm, cycle_count,
                  last_sound_time, running, stream, voice_active,
                  audio_level, confVars, action, focus_ok, listenerVars,
                  now, portVars, tickVars, heard,
                  sysVars, last_loud >>

\* click_button: self.manual_confirm = False, then return True unless the
\* action is SEND INPUT
SetManual ==
  /\ pc = "set_manual"
  /\ manual_confirm' = FALSE
  /\ pc' = IF action = SEND THEN "send" ELSE After(action, TRUE)
  /\ UNCHANGED << is_recording, is_confirming, cycle_count,
                  last_sound_time, running, stream, voice_active,
                  audio_level, confVars, action, focus_ok, listenerVars,
                  now, portVars, tickVars, heard, submitted,
                  sysVars, last_loud >>

\* the count taken twice for one submission
IncrementTwice(c) == c + 2

\* self.cycle_count += 1
Increment(c) == c + 1

\* click_button, SEND INPUT: self.cycle_count += 1; pyautogui.press('return')
SendInput ==
  /\ pc = "send"
  /\ cycle_count' = Increment(cycle_count)
  /\ presses' = presses + 1
  /\ submitted' = submitted + 1
  /\ pc' = After(action, TRUE)
  /\ UNCHANGED << is_recording, is_confirming, manual_confirm,
                  last_sound_time, running, stream, voice_active,
                  audio_level, confVars, action, focus_ok, listenerVars,
                  now, clicks, tickVars, heard,
                  sysVars, last_loud >>

click_button == focus_warp \/ SetRecording \/ SetConfirming \/ SetManual \/ SendInput

\* handle_confirmation: confirmation_start = time.time();
\* samples_above_threshold = 0
ConfirmEnter ==
  /\ pc = "conf_enter"
  /\ \E dt \in 0..MaxDt :
       /\ now + dt <= MaxTime
       /\ now' = now + dt
  /\ confirmation_start' = now'
  /\ samples_above_threshold' = 0
  /\ accepted' = NONE
  /\ pc' = "conf_loop"
  /\ UNCHANGED << selfVars, last_sound_time, running, stream, voice_active,
                  audio_level, action, focus_ok, listenerVars, portVars,
                  tickVars, heard, submitted,
                  sysVars, last_loud >>

\* the loop of handle_confirmation written `while True:`
ConfirmLoopForever ==
  /\ pc = "conf_loop"
  /\ pc' = "conf_read"
  /\ UNCHANGED << selfVars, last_sound_time, running, stream, voice_active,
                  audio_level, confVars, action, focus_ok, listenerVars,
                  now, portVars, tickVars, heard, submitted,
                  sysVars, last_loud >>

\* handle_confirmation: `while self.running:`; when it fails the function
\* returns None and run() goes on to its own loop test
ConfirmLoop ==
  /\ pc = "conf_loop"
  /\ pc' = IF running THEN "conf_read" ELSE "loop"
  /\ UNCHANGED << selfVars, last_sound_time, running, stream, voice_active,
                  audio_level, confVars, action, focus_ok, listenerVars,
                  now, portVars, tickVars, heard, submitted,
                  sysVars, last_loud >>

\* handle_confirmation: one pass of the loop body. Voice is looked at first,
\* then self.manual_confirm, then the elapsed time; `return True` leads to
\* click_button("SEND INPUT") in run().
ConfirmTick ==
  /\ pc = "conf_read"
  /\ \E dt \in 1..MaxDt, level \in Levels :
       /\ now + dt <= MaxTime
       /\ now' = now + dt
       /\ audio_level' = level
       /\ heard' = (heard \/ level > silence_threshold)
       /\ last_loud' = IF level > silence_threshold THEN now' ELSE last_loud
       /\ LET n == IF Loud(level) THEN samples_above_threshold + 1 ELSE 0
              o == Outcome(level, n, manual_confirm, now' - confirmation_start)
          IN  /\ samples_above_threshold' = n
              /\ accepted' = IF o = "resume" THEN accepted ELSE o
              /\ IF o = "resume" THEN Request(START)
                 ELSE IF o = NONE THEN NoRequest("conf_loop")
                 ELSE Request(SEND)
  /\ phase0' = Phase
  /\ cycle0' = cycle_count
  /\ tick' = "confirm"
  /\ UNCHANGED << selfVars, last_sound_time, running, stream, voice_active,
                  confirmation_start, focus_ok, listenerVars, clicks,
                  presses, submitted,
                  sysVars >>

handle_confirmation == ConfirmEnter \/ ConfirmLoop \/ ConfirmTick

\* the body of cleanup(): `if self.stream:` holds for every stream that was
\* opened, closed or not, since self.stream is never reset; stop_stream()
\* and close() are then called, and the key listener is stopped
Release ==
  /\ releases' = IF stream # "none" THEN releases + 1 ELSE releases
  /\ stream' = IF stream # "none" THEN "closed" ELSE stream
  /\ listening' = FALSE

\* cleanup(), from the finally clause of run()
cleanup ==
  /\ pc = "finally"
  /\ Release
  /\ pc' = "done"
  /\ UNCHANGED << selfVars, last_sound_time, running, voice_active,
                  audio_level, confVars, action, focus_ok, kpc, now,
                  portVars, tickVars, heard, submitted, published,
                  exit_status, startup, raised, last_loud >>

\* cleanup() invoked once more by a caller after run() has returned
cleanup_again ==
  /\ pc = "done"
  /\ exit_status = NoExit
  /\ Release
  /\ pc' = "done_again"
  /\ UNCHANGED << selfVars, last_sound_time, running, voice_active,
                  audio_level, confVars, action, focus_ok, kpc, now,
                  portVars, tickVars, heard, submitted, published,
                  exit_status, startup, raised, last_loud >>

run == RunStart \/ RunLoop \/ RunTick \/ ReadError \/ cleanup

main == load_button_position \/ ProcessExit

Next == main \/ on_key_press \/ run \/ click_button \/ handle_confirmation

Spec == Init /\ [][Next]_vars

\* the program, and a caller that invokes cleanup() a second time
SpecCleanupTwice == Init /\ [][Next \/ cleanup_again]_vars

\* ------------------------------------------------------------------ types
TypeOK ==
  /\ is_recording \in BOOLEAN /\ is_confirming \in BOOLEAN
  /\ manual_confirm \in BOOLEAN /\ running \in BOOLEAN
  /\ cycle_count \in Nat /\ last_sound_time \in 0..MaxTime
  /\ now \in 0..MaxTime /\ audio_level \in Levels
  /\ pc \in {"init", "failed", "start", "returned", "loop", "read", "focus",
             "set_recording",
             "set_confirming", "set_manual", "send", "conf_enter",
             "conf_loop", "conf_read", "finally", "done", "done_again"}
  /\ action \in {NONE, START, STOP, SEND}
  /\ kpc \in {"idle", "confirm"}

\* ------------------------------------------------- reading of the ticks
\* The policy thread stands between two ticks: the click_button call of the
\* last tick, if it made one, has returned, and tick, phase0, cycle0, action
\* and focus_ok describe that tick.
TickDone ==
  /\ tick # NONE
  /\ pc \in {"loop", "conf_enter", "conf_loop", "finally", "done"}

\* The step is the pass of run()'s loop body over a frame it could read.
RunTickStep == pc = "read" /\ pc' \notin {"read", "finally"}

\* The step is the pass of handle_confirmation's loop body over a frame it
\* could read.
ConfirmTickStep == pc = "conf_read" /\ pc' \notin {"conf_read", "finally"}

\* ----------------------------------------------------------------- C1
\* C1: from Waiting, a tick above silence_threshold that follows a tick at
\* or below it (a single tick above the threshold) leaves the session in
\* Waiting and issues no start-capture request; only a second consecutive
\* one would.
C1_SingleTickDoesNotStart ==
  [][(RunTickStep /\ ~is_recording /\ ~is_confirming /\ ~voice_active
        /\ audio_level' > silence_threshold)
       => (action' = NONE /\ pc' = "loop")]_vars

\* C1, what run() does instead: from Waiting a tick issues the start-capture
\* request exactly when its level is above silence_threshold and the tick
\* before it was not (voice_active false), so the first tick above the
\* threshold already does and a second consecutive one issues nothing; when
\* the tick is over the session is in Recording if the window could be
\* focused and still in Waiting if not.
C1_FirstLoudTickStarts ==
  /\ [][(RunTickStep /\ ~is_recording /\ ~is_confirming)
          => /\ (action' = START /\ pc' = "focus")
                  <=> (audio_level' > silence_threshold /\ ~voice_active)
             /\ action' # START => (action' = NONE /\ pc' = "loop")]_vars
  /\ [](TickDone /\ tick = "run" /\ phase0 = "Waiting" /\ action = START
          => IF focus_ok THEN is_recording /\ ~is_confirming
                         ELSE ~is_recording /\ ~is_confirming)

\* The first tick of a run was above the threshold and the session is in
\* Recording when it is over.
C1_Witness ==
  /\ pc = "loop" /\ tick = "run" /\ phase0 = "Waiting" /\ action = START
  /\ focus_ok /\ is_recording /\ ~is_confirming
  /\ last_sound_time = now /\ audio_level > silence_threshold

\* ----------------------------------------------------------------- C2
\* C2: as long as no sampled level was strictly above silence_threshold
\* (levels equal to it included), the session is in Waiting, no actuation
\* request was issued (no click_button call is under way or was made, no
\* click, no key press) and cycle_count is 0.
C2_SilenceStaysWaiting ==
  ~heard =>
    /\ ~is_recording /\ ~is_confirming
    /\ cycle_count = 0
    /\ action = NONE /\ clicks = 0 /\ presses = 0
    /\ pc \in {"init", "failed", "start", "returned", "loop", "read",
              "finally", "done"}

\* Ticks at the threshold itself went on for longer than silence_duration
\* and confirmation_silence together, and the session is in Waiting.
C2_Witness ==
  /\ ~heard /\ pc = "loop" /\ tick = "run"
  /\ audio_level = silence_threshold
  /\ now >= silence_duration + confirmation_silence
  /\ ~is_recording /\ ~is_confirming

\* ----------------------------------------------------------------- C3
\* C3: in Recording a tick above silence_threshold sets last_sound_time to
\* the time of that tick and issues no request; a tick at or below it leaves
\* last_sound_time alone and issues the stop-capture request exactly when
\* now - last_sound_time >= silence_duration; the session is in Confirming
\* when a stop-capture request that could focus the window is over; and
\* last_sound_time never decreases.
C3_StopAfterSilence ==
  /\ [][(RunTickStep /\ is_recording /\ ~is_confirming)
          => IF audio_level' > silence_threshold
               THEN last_sound_time' = now' /\ action' = NONE /\ pc' = "loop"
               ELSE /\ last_sound_time' = last_sound_time
                    /\ (action' = STOP /\ pc' = "focus")
                         <=> (now' - last_sound_time >= silence_duration)
                    /\ action' # STOP => (action' = NONE /\ pc' = "loop")]_vars
  /\ [][last_sound_time' >= last_sound_time]_vars
  /\ [](TickDone /\ tick = "run" /\ action = STOP
          => /\ phase0 = "Recording"
             /\ IF focus_ok THEN is_confirming /\ ~is_recording
                            ELSE is_recording /\ ~is_confirming)

\* The stop-capture request was issued on the tick at which the silence had
\* lasted silence_duration exactly, and the session entered Confirming.
C3_Witness ==
  /\ pc = "conf_enter" /\ tick = "run" /\ action = STOP /\ focus_ok
  /\ now - last_sound_time = silence_duration
  /\ is_confirming /\ ~is_recording

\* ----------------------------------------------------------------- C4
\* C4: a tick of the confirmation loop issues the start-capture request
\* exactly when its level and the level of the tick before it are both above
\* silence_threshold, so one tick above the threshold followed by a tick at
\* or below it does not cancel; click_button("START RECORDING") returns with
\* is_recording true, is_confirming false and manual_confirm false; and when
\* that tick is over and the window could be focused the session is in
\* Recording with cycle_count unchanged and no Submitted event.
C4_VoiceResumesRecording ==
  /\ [][ConfirmTickStep
          => ((action' = START /\ pc' = "focus")
                <=> (audio_level > silence_threshold
                       /\ audio_level' > silence_threshold))]_vars
  /\ [][(pc = "set_manual" /\ pc' # pc /\ action = START)
          => (is_recording' /\ ~is_confirming' /\ ~manual_confirm'
                /\ cycle_count' = cycle0)]_vars
  /\ [](TickDone /\ tick = "confirm" /\ action = START
          => /\ phase0 = "Confirming"
             /\ cycle_count = cycle0 /\ submitted = 0
             /\ IF focus_ok THEN is_recording /\ ~is_confirming
                            ELSE is_confirming /\ ~is_recording)

\* Two consecutive ticks above the threshold cancelled a confirmation before
\* the timeout and the session is in Recording again.
C4_Witness ==
  /\ pc = "loop" /\ tick = "confirm" /\ phase0 = "Confirming"
  /\ action = START /\ focus_ok
  /\ is_recording /\ ~is_confirming /\ ~manual_confirm
  /\ now - confirmation_start < confirmation_silence
  /\ cycle_count = 0

\* ----------------------------------------------------------------- C5
\* C5: a tick of the confirmation loop that reads manual_confirm true before
\* confirmation_silence has elapsed, and is not the second consecutive tick
\* above the threshold, issues the submit request on that very tick as a
\* manual confirmation; when that tick is over and the window could be
\* focused the session is in Waiting and cycle_count is exactly one more
\* than before the tick.
C5_ManualConfirmSubmits ==
  /\ [][(ConfirmTickStep /\ manual_confirm
           /\ now' - confirmation_start < confirmation_silence
           /\ ~(audio_level > silence_threshold
                  /\ audio_level' > silence_threshold))
          => (action' = SEND /\ pc' = "focus" /\ accepted' = "manual")]_vars
  /\ [](TickDone /\ tick = "confirm" /\ action = SEND /\ accepted = "manual"
          /\ focus_ok
          => /\ phase0 = "Confirming"
             /\ ~is_recording /\ ~is_confirming
             /\ cycle_count = cycle0 + 1)

\* A manual confirmation was accepted before the timeout and submitted.
C5_Witness ==
  /\ pc = "loop" /\ tick = "confirm" /\ action = SEND /\ accepted = "manual"
  /\ focus_ok /\ now - confirmation_start < confirmation_silence
  /\ ~is_recording /\ ~is_confirming /\ cycle_count = 1 /\ cycle0 = 0

\* ----------------------------------------------------------------- C6
\* C6: a tick of the confirmation loop that reads manual_confirm false and is
\* not the second consecutive tick above the threshold issues the submit
\* request exactly when the time since handle_confirmation was entered is at
\* least confirmation_silence, and otherwise issues nothing and stays in the
\* loop; so the request is issued on the first such tick and on no earlier
\* one. When that tick is over and the window could be focused the session
\* is in Waiting, not in Confirming, with cycle_count one more than before.
C6_TimeoutSubmits ==
  /\ [][(ConfirmTickStep /\ ~manual_confirm
           /\ ~(audio_level > silence_threshold
                  /\ audio_level' > silence_threshold))
          => /\ (action' = SEND /\ pc' = "focus" /\ accepted' = "auto")
                  <=> (now' - confirmation_start >= confirmation_silence)
             /\ action' # SEND
                  => (action' = NONE /\ pc' = "conf_loop")]_vars
  /\ [](TickDone /\ tick = "confirm" /\ action = SEND /\ accepted = "auto"
          /\ focus_ok
          => /\ phase0 = "Confirming"
             /\ now - confirmation_start >= confirmation_silence
             /\ ~is_recording /\ ~is_confirming
             /\ cycle_count = cycle0 + 1)

\* The timeout submitted on the tick at which confirmation_silence had
\* elapsed exactly.
C6_Witness ==
  /\ pc = "loop" /\ tick = "confirm" /\ action = SEND /\ accepted = "auto"
  /\ focus_ok /\ now - confirmation_start = confirmation_silence
  /\ ~is_recording /\ ~is_confirming /\ cycle_count = 1 /\ cycle0 = 0

\* ----------------------------------------------------------------- C7
\* C7: the confirmation loop resolves its conditions in the order abort,
\* voice, manual confirmation, timeout. When its loop test finds running
\* false it returns without a request and without a change of phase or of
\* cycle_count, whatever the other conditions are, and run() then leaves its
\* own loop. A tick that is the second consecutive one above the threshold
\* issues the start-capture request and no submit request even with
\* manual_confirm set or the timeout elapsed; otherwise manual_confirm set
\* submits as a manual confirmation even with the timeout elapsed; otherwise
\* the elapsed timeout submits as an automatic one; otherwise nothing is
\* issued.
C7_Precedence ==
  /\ [][(pc = "conf_loop" /\ pc' # pc /\ ~running)
          => /\ pc' = "loop"
             /\ UNCHANGED << is_recording, is_confirming, cycle_count,
                             action, accepted, clicks, presses >>]_vars
  /\ [][(pc = "loop" /\ pc' # pc /\ ~running) => pc' = "finally"]_vars
  /\ [][ConfirmTickStep
          => LET voice == audio_level > silence_threshold
                            /\ audio_level' > silence_threshold
                 late == now' - confirmation_start >= confirmation_silence
             IN  /\ action' = IF voice THEN START
                              ELSE IF manual_confirm \/ late THEN SEND
                              ELSE NONE
                 /\ accepted' = IF voice THEN accepted
                                ELSE IF manual_confirm THEN "manual"
                                ELSE IF late THEN "auto"
                                ELSE NONE]_vars
  /\ [](TickDone /\ tick = "confirm" /\ action = START
          => cycle_count = cycle0 /\ presses = cycle0)

\* Voice, manual confirmation and timeout all held on one tick of the
\* confirmation loop, and the start-capture request is the one issued.
C7_Witness ==
  /\ pc = "focus" /\ tick = "confirm" /\ action = START
  /\ manual_confirm
  /\ now - confirmation_start >= confirmation_silence
  /\ audio_level > silence_threshold /\ samples_above_threshold >= 2
  /\ cycle_count = 0

\* ----------------------------------------------------------------- C8
\* C8: cycle_count changes only by +1, only in click_button("SEND INPUT")
\* called for a tick that began in Confirming, and by then the session has
\* left Confirming; no more than one Submitted event happens per entry into
\* Confirming; and a tick of the confirmation loop that submits, with
\* manual_confirm set and the timeout elapsed together included, leaves
\* cycle_count exactly one above its value before the tick.
C8_CycleCount ==
  /\ [][(cycle_count' # cycle_count)
          => /\ cycle_count' = cycle_count + 1
             /\ pc = "send" /\ action = SEND
             /\ tick = "confirm" /\ phase0 = "Confirming"
             /\ ~is_confirming' /\ ~is_recording']_vars
  /\ [](submitted <= 1)
  /\ [](TickDone /\ tick = "confirm" /\ action = SEND /\ focus_ok
          => cycle_count = cycle0 + 1 /\ submitted = 1)
  /\ [](TickDone /\ ~(tick = "confirm" /\ action = SEND /\ focus_ok)
          => cycle_count = cycle0)

\* manual_confirm and the timeout held on the same tick, and one Submitted
\* event followed.
C8_Witness ==
  /\ pc = "loop" /\ tick = "confirm" /\ action = SEND /\ focus_ok
  /\ accepted = "manual"
  /\ now - confirmation_start >= confirmation_silence
  /\ cycle_count = 1 /\ cycle0 = 0 /\ submitted = 1

\* ----------------------------------------------------------------- C9
\* C9: between the start and the end of a tick the phase stays what it was
\* or changes Waiting->Recording, Recording->Confirming,
\* Confirming->Recording or Confirming->Waiting, never Waiting->Confirming
\* or Recording->Waiting; every tick starts in one of the three phases; and
\* the submit key is pressed only for a tick that began in Confirming.
C9_PhaseOrder ==
  /\ [](TickDone
          => \/ Phase = phase0
             \/ << phase0, Phase >> \in
                  { << "Waiting", "Recording" >>,
                    << "Recording", "Confirming" >>,
                    << "Confirming", "Recording" >>,
                    << "Confirming", "Waiting" >> })
  /\ [](phase0 \in {"Waiting", "Recording", "Confirming"})
  /\ [][(presses' # presses)
          => (phase0 = "Confirming" /\ action = SEND)]_vars
  /\ [][(is_recording' # is_recording \/ is_confirming' # is_confirming)
          => pc \in {"set_recording", "set_confirming"}]_vars

\* A whole cycle Waiting, Recording, Confirming, Waiting took place and a
\* second recording has started.
C9_Witness ==
  /\ pc = "loop" /\ tick = "run" /\ phase0 = "Waiting"
  /\ is_recording /\ ~is_confirming /\ cycle_count = 1

\* ---------------------------------------------------------------- C10
\* C10: running never becomes true again once false. A frame is read, in
\* either loop, only after a loop test that found running true, so once
\* running is false no tick begins: the loop test of handle_confirmation
\* returns to run(), the loop test of run() leaves the loop, and only the
\* tick already under way is completed. Once run() has left its loop the
\* phase, cycle_count and the actuation counts no longer change.
C10_AbortIsTerminal ==
  /\ [][~running => ~running']_vars
  /\ [][(pc' \in {"read", "conf_read"} /\ pc' # pc)
          => (running /\ pc \in {"loop", "conf_loop"})]_vars
  /\ [][(pc \in {"loop", "conf_loop"} /\ pc' # pc /\ ~running)
          => /\ pc' = IF pc = "loop" THEN "finally" ELSE "loop"
             /\ UNCHANGED << is_recording, is_confirming, manual_confirm,
                             cycle_count, action, clicks, presses >>]_vars
  /\ [][(pc \in {"finally", "done", "returned"})
          => /\ pc' \in {"finally", "done", "returned"}
             /\ UNCHANGED << is_recording, is_confirming, cycle_count,
                             action, clicks, presses, now >>]_vars

\* ESC arrived while the session was confirming, and run() has left its
\* loop with the confirmation neither submitted nor cancelled.
C10_Witness ==
  /\ pc = "done" /\ ~running /\ is_confirming /\ ~is_recording
  /\ tick = "confirm" /\ action = NONE /\ cycle_count = 0

\* ---------------------------------------------------------------- C11
\* C11: once cleanup() has run, whether once on the exit from the policy
\* loop or a second time after that, the audio stream has been released
\* exactly once (stream.close() was called once), and before cleanup() it
\* has not been released.
C11_ReleasedExactlyOnce ==
  IF pc \in {"done", "done_again"} THEN releases = 1 ELSE releases = 0

\* C11, the part run() itself decides: every exit from the policy loop goes
\* through cleanup() once, with the stream open before it and closed after.
C11_ReleasedOnceOnExit ==
  /\ [](pc = "done" => releases = 1 /\ stream = "closed")
  /\ [](pc \in {"loop", "read", "focus", "set_recording", "set_confirming",
                "set_manual", "send", "conf_enter", "conf_loop",
                "conf_read", "finally"}
          => releases = 0 /\ stream = "open")
  /\ [][(releases' # releases) => (pc = "finally" /\ pc' = "done")]_vars

\* ---------------------------------------------------------------- C12
\* C12: a frame that cannot be read does not end the policy loop: run() is
\* past its loop only after an abort (running false), never because a read
\* failed, so that the failed read counts as one silent tick and the next
\* tick is processed.
C12_ReadFailureDoesNotEndLoop ==
  pc \in {"finally", "done"} => ~running

\* ---------------------------------------------------------------- C13
\* C13: when the start-up failed because the configuration could not be
\* loaded or the audio stream could not be opened, the process ends without
\* a tick of the policy loop and with an exit status other than 0, the
\* status of a clean stop.
C13_StartupFailureExitsNonZero ==
  (exit_status # NoExit /\ startup \in {"no_config", "no_audio"})
    => (tick = NONE /\ exit_status # 0)

\* C13, the part that holds: a start-up failure of either kind ends the
\* process before any tick, and the configuration failure ends it with
\* status 1.
C13_StartupFailureBeforeLoop ==
  /\ [](startup \in {"no_config", "no_audio", "no_focus"}
          => tick = NONE /\ pc \in {"failed", "returned"})
  /\ [](startup = "no_config" => exit_status = 1)

\* ---------------------------------------------------------------- C14
\* C14: when focus_warp() fails inside click_button, whatever the action,
\* click_button returns at once: is_recording, is_confirming, manual_confirm
\* and cycle_count keep their values, no click and no key press is issued,
\* and when the tick is over the phase and cycle_count are what they were
\* when it began.
C14_FocusFailureChangesNothing ==
  /\ [][(pc = "focus" /\ pc' # pc /\ ~focus_ok')
          => /\ UNCHANGED << is_recording, is_confirming, manual_confirm,
                             cycle_count, clicks, presses >>
             /\ pc' = "loop"]_vars
  /\ [](TickDone /\ action # NONE /\ ~focus_ok
          => Phase = phase0 /\ cycle_count = cycle0)

\* A submit request was abandoned because the window could not be focused:
\* the session is still in Confirming and nothing was clicked or pressed
\* for it.
C14_Witness ==
  /\ pc = "loop" /\ tick = "confirm" /\ action = SEND /\ ~focus_ok
  /\ is_confirming /\ ~is_recording /\ cycle_count = 0 /\ presses = 0
  /\ clicks = 2

\* ---------------------------------------------------------------- C15
\* C15: a request abandoned because the window could not be focused is made
\* again by the next tick that qualifies for it: after an abandoned
\* start-capture request (from Waiting, or the resume from Confirming) the
\* next tick above silence_threshold, after an abandoned stop-capture
\* request the next tick at or below it, and after an abandoned submit
\* request the next tick whatever its level.
C15_AbandonedRequestRetried ==
  [][(RunTickStep /\ action # NONE /\ ~focus_ok
        /\ CASE action = START -> audio_level' > silence_threshold
             [] action = STOP -> audio_level' <= silence_threshold
             [] OTHER -> TRUE)
       => (action' = action /\ pc' = "focus")]_vars

\* C15, the one request run() does make again: a stop-capture request
\* abandoned in Recording is repeated by the next tick at or below the
\* threshold.
C15_StopIsRetried ==
  [][(RunTickStep /\ action = STOP /\ ~focus_ok
        /\ audio_level' <= silence_threshold)
       => (action' = STOP /\ pc' = "focus")]_vars

\* C15: a session whose resume or submit request was abandoned is still in
\* Confirming, outside handle_confirmation, and no later tick of run() makes
\* any request for it.
C15_StuckInConfirming ==
  [][(RunTickStep /\ is_confirming) => (action' = NONE /\ pc' = "loop")]_vars

\* ---------------------------------------------------------------- C16
\* C16: between two ticks manual_confirm is false whenever the session is in
\* Waiting or in Recording, under every interleaving of on_key_press with
\* the policy thread: a SPACE outside Confirming is dropped, and none is
\* carried out of a Confirming phase.
C16_NoConfirmOutsideConfirming ==
  (pc \in {"loop", "read"} /\ ~is_confirming) => ~manual_confirm

\* C16, without the interleaving inside on_key_press: as long as the key
\* listener is not between its test of is_confirming and its assignment,
\* manual_confirm is false in Waiting and in Recording between two ticks.
C16_HoldsWhenKeyHandlerIsAtomic ==
  [][(kpc = "idle" /\ kpc' = "idle")
       => ((pc' \in {"loop", "read"} /\ ~is_confirming' /\ ~manual_confirm)
             => ~manual_confirm')]_vars

\* ---------------------------------------------------------------- C17
\* C17: every tick of the policy loop, in run() and in
\* handle_confirmation(), publishes one status snapshot.
C17_PublishedEveryTick ==
  [][(RunTickStep \/ ConfirmTickStep) => published' = published + 1]_vars

\* C17, as run() is written: warp_voice.py holds no StatusClient and no
\* step of the controller publishes anything.
C17_NothingPublished == published = 0

\* ---------------------------------------------------------------- C18
\* C18: a click on the capture control is made only by a start-capture or a
\* stop-capture request, one per request, and the submit request makes only
\* the key press.
C18_OneActuationPerRequest ==
  /\ [][(clicks' # clicks)
          => (action \in {START, STOP} /\ clicks' = clicks + 1
                /\ presses' = presses)]_vars
  /\ [][(presses' # presses)
          => (action = SEND /\ presses' = presses + 1
                /\ clicks' = clicks)]_vars

\* C18, as click_button() is written: every granted request clicks the
\* capture control once, and the submit request then presses return.
C18_EveryRequestClicks ==
  /\ [][(pc = "focus" /\ pc' = "set_recording")
          => clicks' = clicks + 1]_vars
  /\ [][(presses' # presses) => action = SEND]_vars

\* ---------------------------------------------------------------- C19
\* C19: last_sound_time is never older than the latest frame above the
\* threshold that the policy has read, in run() or in
\* handle_confirmation().
C19_LastSoundCoversConfirmation == last_sound_time >= last_loud

\* C19, second half: a silent tick of run() in Recording requests the stop
\* only when silence_duration has passed since the latest loud frame read
\* in any phase.
C19_NoImmediateStopAfterResume ==
  [][(RunTickStep /\ is_recording /\ audio_level' <= silence_threshold
        /\ now' - last_loud < silence_duration)
       => action' # STOP]_vars

\* C19, restricted to run(): a loud frame read by the outer loop is
\* recorded in last_sound_time.
C19_RunTickRecordsSound ==
  [][(RunTickStep /\ audio_level' > silence_threshold)
       => last_sound_time' = now']_vars

\* ---------------------------------------------------------------- C20
\* C20: in every state between two ticks, after any click_button call has
\* returned (granted or abandoned), is_recording and is_confirming are not
\* both true.
C20_ExactlyOnePhase ==
  (pc \in {"loop", "read", "conf_enter", "conf_loop", "conf_read",
           "finally", "done"})
    => ~(is_recording /\ is_confirming)

\* The resume from Confirming has completed: click_button("START
\* RECORDING") was entered with is_confirming true, set is_recording and
\* returned, and the session is in Recording alone.
C20_Witness ==
  /\ TickDone /\ tick = "confirm" /\ action = START /\ focus_ok
  /\ pc = "loop" /\ phase0 = "Confirming"
  /\ is_recording /\ ~is_confirming

\* C20, inside click_button: the two flags are both true only between the
\* assignment to is_recording and the assignment to is_confirming of a
\* start-capture request.
C20_BothOnlyInsideStart ==
  (is_recording /\ is_confirming) => (pc = "set_confirming" /\ action = START)

\* ---------------------------------------------------------------- C21
\* C21: a SPACE accepted by on_key_press while is_confirming is true is
\* never lost: under every interleaving with click_button, the
\* manual_confirm it set during Confirming is taken back only by the
\* submission it causes (SEND INPUT) or by the resume that sustained voice
\* causes (START RECORDING).
C21_ConfirmNeverLost ==
  [][(manual_confirm /\ is_confirming /\ ~manual_confirm')
       => action \in {SEND, START}]_vars

\* C21, where the keypress is lost: the only other step that takes
\* manual_confirm back is the last assignment of the stop-capture request,
\* made after is_confirming has already been set.
C21_LostOnlyAtPhaseEntry ==
  [][(manual_confirm /\ is_confirming /\ ~manual_confirm'
        /\ action \notin {SEND, START})
       => (pc = "set_manual" /\ action = STOP /\ pc' = "conf_enter")]_vars

\* C21, once handle_confirmation has been entered: no step taken inside
\* its loop clears manual_confirm.
C21_KeptInsideConfirmation ==
  [][(manual_confirm /\ pc \in {"conf_enter", "conf_loop", "conf_read"})
       => manual_confirm']_vars
====
